---------------------------- MODULE Spec2Model ----------------------------
(***************************************************************************)
(* Model of src/app.py, the customer orders dashboard.  The script is      *)
(* re-executed from its first line whenever the file uploader changes;     *)
(* one execution loads the CSV, normalises "Customer Type", parses "Date", *)
(* scopes the rows to 2025 and derives the tables behind the charts.       *)
(*                                                                         *)
(* Text is a sequence of one-character strings, so that strip() and the    *)
(* ordering of group keys are computed.  A cell of the data frame is a     *)
(* record: na = TRUE is pandas' missing value (NaN), otherwise s holds     *)
(* the text.  A float64 quotient a/b is kept as the exact rational a/b     *)
(* plus its rounding error, see FloatDiv.                                  *)
(***************************************************************************)
EXTENDS Integers, Sequences, FiniteSets, TLC

\* Largest number of data rows of an uploaded CSV.
MaxRows == 3

(***************************************************************************)
(* Cells and text                                                          *)
(***************************************************************************)
NaN == [na |-> TRUE, s |-> <<>>]

Str(t) == [na |-> FALSE, s |-> t]

NotDefined == <<"N", "o", "t", " ", "D", "e", "f", "i", "n", "e", "d">>

nan == <<"n", "a", "n">>

NaNText == <<"N", "a", "N">>

\* Code point of a character (str comparison orders by code point).
Ord(c) ==
    CASE c = " " -> 32 [] c = "-" -> 45
      [] c = "0" -> 48 [] c = "1" -> 49 [] c = "2" -> 50 [] c = "3" -> 51
      [] c = "4" -> 52 [] c = "5" -> 53 [] c = "6" -> 54 [] c = "7" -> 55
      [] c = "8" -> 56 [] c = "9" -> 57
      [] c = "D" -> 68 [] c = "G" -> 71 [] c = "M" -> 77 [] c = "N" -> 78
      [] c = "a" -> 97 [] c = "b" -> 98 [] c = "d" -> 100 [] c = "e" -> 101
      [] c = "f" -> 102 [] c = "i" -> 105 [] c = "n" -> 110 [] c = "o" -> 111
      [] c = "t" -> 116 [] c = "x" -> 120

IsSpace(c) == c = " "

RECURSIVE LStrip(_)
LStrip(t) ==
    IF t # <<>> /\ IsSpace(Head(t)) THEN LStrip(Tail(t)) ELSE t

RECURSIVE RStrip(_)
RStrip(t) ==
    IF t # <<>> /\ IsSpace(t[Len(t)]) THEN RStrip(SubSeq(t, 1, Len(t) - 1)) ELSE t

\* Series.str.strip(): missing stays missing, text loses surrounding whitespace.
StrStrip(cell) ==
    IF cell.na THEN cell ELSE Str(RStrip(LStrip(cell.s)))

\* Series.astype(str) on the object column read_csv yields: NaN becomes "nan".
\* (Where astype(str) keeps a missing value missing, strip and replace pass it
\* on and FillNa turns it into the sentinel: the cleaned cell is the same.)
AsTypeStr(cell) ==
    IF cell.na THEN Str(nan) ELSE cell

\* Series.replace({'': 'Not Defined', 'nan': 'Not Defined', 'NaN': 'Not Defined'}):
\* whole-value matches only.
ReplaceSentinels(cell) ==
    IF ~cell.na /\ cell.s \in {<<>>, nan, NaNText} THEN Str(NotDefined) ELSE cell

\* Series.fillna('Not Defined')
FillNa(cell) ==
    IF cell.na THEN Str(NotDefined) ELSE cell

\* Faulty variant: the strip() step left out.
CleanCustomerTypeNoStrip(cell) ==
    FillNa(ReplaceSentinels(AsTypeStr(cell)))

\* Lines 34-40 applied to one cell of the 'Customer Type' column.
CleanCustomerType(cell) ==
    FillNa(ReplaceSentinels(StrStrip(AsTypeStr(cell))))

\* t < u in str order (lexicographic by code point).
RECURSIVE StrLess(_, _)
StrLess(t, u) ==
    IF u = <<>> THEN FALSE
    ELSE IF t = <<>> THEN TRUE
    ELSE IF Ord(Head(t)) # Ord(Head(u)) THEN Ord(Head(t)) < Ord(Head(u))
    ELSE StrLess(Tail(t), Tail(u))

(***************************************************************************)
(* Dates                                                                   *)
(***************************************************************************)
NaT == [nat |-> TRUE, year |-> 0, month |-> 0, day |-> 0]

Timestamp(y, m, d) == [nat |-> FALSE, year |-> y, month |-> m, day |-> d]

IsDigit(c) == c \in {"0", "1", "2", "3", "4", "5", "6", "7", "8", "9"}

DigitVal(c) == Ord(c) - Ord("0")

RECURSIVE ParseInt(_)
ParseInt(t) ==
    IF t = <<>> THEN 0 ELSE 10 * ParseInt(SubSeq(t, 1, Len(t) - 1)) + DigitVal(t[Len(t)])

DaysInMonth(y, m) ==
    IF m = 2
    THEN (IF y % 4 = 0 /\ (y % 100 # 0 \/ y % 400 = 0) THEN 29 ELSE 28)
    ELSE IF m \in {4, 6, 9, 11} THEN 30 ELSE 31

\* pd.to_datetime(..., errors='coerce') on one cell: an ISO "YYYY-MM-DD" text
\* naming a calendar day parses, anything else (missing included) becomes NaT.
ToDatetime(cell) ==
    IF cell.na \/ Len(cell.s) # 10 THEN NaT
    ELSE IF ~(/\ cell.s[5] = "-" /\ cell.s[8] = "-"
              /\ \A i \in {1, 2, 3, 4, 6, 7, 9, 10} : IsDigit(cell.s[i])) THEN NaT
    ELSE LET y == ParseInt(SubSeq(cell.s, 1, 4))
             m == ParseInt(SubSeq(cell.s, 6, 7))
             d == ParseInt(SubSeq(cell.s, 9, 10))
         IN  IF y >= 1 /\ m \in 1..12 /\ d \in 1..DaysInMonth(y, m)
             THEN Timestamp(y, m, d) ELSE NaT

\* The year the dashboard is scoped to.
ReferenceYear == 2025

\* df['Date'].dt.year == 2025: False for NaT.
InYear(ts) == ~ts.nat /\ ts.year = ReferenceYear

\* Date.dt.to_period('M').dt.to_timestamp(): first day of the calendar month.
MonthOf(ts) == Timestamp(ts.year, ts.month, 1)

MonthLess(a, b) == a.year * 12 + a.month < b.year * 12 + b.month

(***************************************************************************)
(* float64 division                                                        *)
(***************************************************************************)
\* floor(log2(a/b)) for a, b > 0
RECURSIVE Exponent(_, _)
Exponent(a, b) ==
    IF a < b THEN Exponent(2 * a, b) - 1
    ELSE IF a >= 2 * b THEN Exponent(a, 2 * b) + 1
    ELSE 0

\* 2^k mod m
RECURSIVE Pow2Mod(_, _)
Pow2Mod(k, m) ==
    IF k = 0 THEN 1 % m ELSE (2 * Pow2Mod(k - 1, m)) % m

\* a / b in IEEE-754 binary64 (53 significant bits, round half to even), for
\* integers a, b > 0.  The result is the real number
\*     num/den + err / (den * 2^scale):
\* with k = 52 - floor(log2(a/b)) the significand is a*2^k/b rounded to an
\* integer, r is the remainder of that division and err the signed distance
\* (in units of 1/(b*2^k)) from the exact quotient to the rounded one.
FloatDiv(a, b) ==
    LET k == 52 - Exponent(a, b)
        r == (a * Pow2Mod(k, b)) % b
        odd == ((a * Pow2Mod(k, 2 * b)) % (2 * b)) \div b = 1
        up == 2 * r > b \/ (2 * r = b /\ odd)
    IN  [num |-> a, den |-> b, err |-> IF up THEN b - r ELSE -r, scale |-> k]


(***************************************************************************)
(* Data frames: a sequence of rows, each row a function from column name   *)
(* to value.                                                               *)
(***************************************************************************)
RECURSIVE SumCol(_, _)
SumCol(rows, col) ==
    IF rows = <<>> THEN 0 ELSE rows[1][col] + SumCol(Tail(rows), col)

RECURSIVE MaxCol(_, _)
MaxCol(rows, col) ==
    IF Len(rows) = 1 THEN rows[1][col]
    ELSE LET m == MaxCol(Tail(rows), col)
         IN  IF rows[1][col] >= m THEN rows[1][col] ELSE m

SelectRows(rows, col, v) == SelectSeq(rows, LAMBDA r : r[col] = v)

\* The distinct values of a column in order of first appearance.
RECURSIVE Unique(_, _)
Unique(rows, col) ==
    IF rows = <<>> THEN <<>>
    ELSE LET rest == Unique(SubSeq(rows, 1, Len(rows) - 1), col)
             v == rows[Len(rows)][col]
         IN  IF \E i \in DOMAIN rest : rest[i] = v THEN rest ELSE Append(rest, v)

\* Stable insertion of row r into rows sorted ascending on an integer column.
RECURSIVE InsertAsc(_, _, _)
InsertAsc(rows, r, col) ==
    IF rows = <<>> THEN <<r>>
    ELSE IF rows[Len(rows)][col] <= r[col] THEN Append(rows, r)
    ELSE Append(InsertAsc(SubSeq(rows, 1, Len(rows) - 1), r, col), rows[Len(rows)])

\* DataFrame.sort_values(col, ascending=True) on an integer column.
RECURSIVE SortValues(_, _)
SortValues(rows, col) ==
    IF rows = <<>> THEN <<>>
    ELSE InsertAsc(SortValues(SubSeq(rows, 1, Len(rows) - 1), col), rows[Len(rows)], col)

RECURSIVE InsertDesc(_, _, _)
InsertDesc(rows, r, col) ==
    IF rows = <<>> THEN <<r>>
    ELSE IF rows[Len(rows)][col] >= r[col] THEN Append(rows, r)
    ELSE Append(InsertDesc(SubSeq(rows, 1, Len(rows) - 1), r, col), rows[Len(rows)])

RECURSIVE SortValuesDesc(_, _)
SortValuesDesc(rows, col) ==
    IF rows = <<>> THEN <<>>
    ELSE InsertDesc(SortValuesDesc(SubSeq(rows, 1, Len(rows) - 1), col), rows[Len(rows)], col)

RECURSIVE SetToSeq(_)
SetToSeq(S) ==
    IF S = {} THEN <<>>
    ELSE LET x == CHOOSE x \in S : TRUE IN <<x>> \o SetToSeq(S \ {x})

\* Group keys come out of groupby sorted: text by code point, months by time.
\* A groupby (and value_counts) leaves out the rows whose key is missing.
SortedCells(S) ==
    SortSeq(SetToSeq({c \in S : ~c.na}), LAMBDA a, b : StrLess(a.s, b.s))

SortedMonths(S) == SortSeq(SetToSeq(S), LAMBDA a, b : MonthLess(a, b))

ColumnValues(rows, col) == {rows[i][col] : i \in DOMAIN rows}

CountWhere(rows, col, v) == Cardinality({i \in DOMAIN rows : rows[i][col] = v})

(***************************************************************************)
(* The derived tables                                                      *)
(***************************************************************************)
\* df['Customer Type'].value_counts().rename_axis(..).reset_index(name='Count'):
\* one row per distinct (non-missing) value, most frequent first.
ValueCounts(rows) ==
    LET vals == SelectSeq(Unique(rows, "Customer Type"), LAMBDA c : ~c.na)
    IN  SortValuesDesc(
            [i \in DOMAIN vals |->
                ("Customer Type" :> vals[i]
                 @@ "Count" :> CountWhere(rows, "Customer Type", vals[i]))],
            "Count")

\* Faulty variant: the totals taken over the rows of 2025 only.
CustomerCountsOfYear(rows) ==
    LET counted == SortValues(
                       ValueCounts(SelectSeq(rows, LAMBDA r : InYear(r["Date"]))), "Count")
    IN  [i \in DOMAIN counted |-> counted[i] @@ ("All" :> "All Customers")]

\* Lines 75-82.
CustomerCounts(rows) ==
    LET counted == SortValues(ValueCounts(rows), "Count")
    IN  [i \in DOMAIN counted |-> counted[i] @@ ("All" :> "All Customers")]

\* Lines 84-88: df_year.groupby(['Month', 'Customer Type']).size().
TimeSeries(rows) ==
    LET months == SortedMonths(ColumnValues(rows, "Month"))
        of(m) == SelectRows(rows, "Month", m)
        types(m) == SortedCells(ColumnValues(of(m), "Customer Type"))
        block(m) == [j \in DOMAIN types(m) |->
                        ("Month" :> m @@ "Customer Type" :> types(m)[j]
                         @@ "Count" :> CountWhere(of(m), "Customer Type", types(m)[j]))]
        cat[i \in 0..Len(months)] ==
            IF i = 0 THEN <<>> ELSE cat[i - 1] \o block(months[i])
    IN  cat[Len(months)]

\* Line 125: time_series.pivot(index='Customer Type', columns='Month',
\* values='Count').fillna(0).
HeatmapData(ts) ==
    LET idx == SortedCells(ColumnValues(ts, "Customer Type"))
        cols == SortedMonths(ColumnValues(ts, "Month"))
        cell(t, m) ==
            LET hit == SelectSeq(ts, LAMBDA r : r["Customer Type"] = t /\ r["Month"] = m)
            IN  IF hit = <<>> THEN 0 ELSE hit[1]["Count"]
    IN  [index |-> idx, columns |-> cols,
         values |-> [i \in DOMAIN idx |-> [j \in DOMAIN cols |-> cell(idx[i], cols[j])]]]

\* Faulty variant: the total of all months instead of month m.
MonthTotalOverall(ts, m) == SumCol(ts, "Count")

\* Line 131: groupby('Month')['Count'].transform('sum') for the rows of month m.
MonthTotal(ts, m) == SumCol(SelectRows(ts, "Month", m), "Count")

\* Lines 130-132.
ShareTs(ts) ==
    [i \in DOMAIN ts |->
        ts[i] @@ ("Month_Total" :> MonthTotal(ts, ts[i]["Month"])
                  @@ "Share" :> FloatDiv(ts[i]["Count"], MonthTotal(ts, ts[i]["Month"])))]

\* Line 141: time_series.sort_values(['Customer Type', 'Month']).
SortByTypeMonth(ts) ==
    SortSeq(ts, LAMBDA a, b :
        \/ StrLess(a["Customer Type"].s, b["Customer Type"].s)
        \/ /\ a["Customer Type"] = b["Customer Type"]
           /\ MonthLess(a["Month"], b["Month"]))

\* Faulty variant: a running sum that ignores the type.
CumSumUngrouped(rows, i) == SumCol(SubSeq(rows, 1, i), "Count")

\* Line 142: groupby('Customer Type')['Count'].cumsum() at row i, the sum of
\* Count over the rows of the same type up to and including row i.
CumSum(rows, i) ==
    SumCol(SelectRows(SubSeq(rows, 1, i), "Customer Type", rows[i]["Customer Type"]),
           "Count")

\* Lines 141-142.
CumTs(ts) ==
    LET sorted == SortByTypeMonth(ts)
    IN  [i \in DOMAIN sorted |->
            sorted[i] @@ ("Cumulative Orders" :> CumSum(sorted, i))]

\* Lines 160-165.
SegmentRank(rows) ==
    LET types == SortedCells(ColumnValues(rows, "Customer Type"))
    IN  SortValues(
            [i \in DOMAIN types |->
                ("Customer Type" :> types[i]
                 @@ "Total Orders 2025" :> CountWhere(rows, "Customer Type", types[i]))],
            "Total Orders 2025")

candidate_cols == <<"Customer ID", "Customer_Id", "Customer Name", "Customer">>

\* Faulty variant: the last listed name in the header instead of the first.
RECURSIVE LastPresent(_, _)
LastPresent(cands, columns) ==
    IF cands = <<>> THEN "None"
    ELSE IF cands[Len(cands)] \in columns THEN cands[Len(cands)]
    ELSE LastPresent(SubSeq(cands, 1, Len(cands) - 1), columns)

\* Line 181: next((c for c in candidate_cols if c in columns), None).
RECURSIVE FirstPresent(_, _)
FirstPresent(cands, columns) ==
    IF cands = <<>> THEN "None"
    ELSE IF Head(cands) \in columns THEN Head(cands)
    ELSE FirstPresent(Tail(cands), columns)

\* Lines 186-190: df_year.groupby(['Customer Type', id]).size(); groupby drops
\* the rows in which a key is missing (dropna=True is the default).
CustSeg(rows, id) ==
    LET kept == SelectSeq(rows, LAMBDA r : ~r[id].na /\ ~r["Customer Type"].na)
        types == SortedCells(ColumnValues(kept, "Customer Type"))
        of(t) == SelectRows(kept, "Customer Type", t)
        ids(t) == SortedCells(ColumnValues(of(t), id))
        block(t) == [j \in DOMAIN ids(t) |->
                        ("Customer Type" :> t @@ id :> ids(t)[j]
                         @@ "Orders per Customer" :> CountWhere(of(t), id, ids(t)[j]))]
        cat[i \in 0..Len(types)] ==
            IF i = 0 THEN <<>> ELSE cat[i - 1] \o block(types[i])
    IN  cat[Len(types)]

\* Faulty variant: the first order count of a type taken for its maximum.
SegCustomerStatsMaxFirst(cs) ==
    LET types == SortedCells(ColumnValues(cs, "Customer Type"))
        of(t) == SelectRows(cs, "Customer Type", t)
    IN  [i \in DOMAIN types |->
            ("Customer Type" :> types[i]
             @@ "Avg Orders per Customer" :>
                    FloatDiv(SumCol(of(types[i]), "Orders per Customer"), Len(of(types[i])))
             @@ "Max Orders (Single Customer)" :> of(types[i])[1]["Orders per Customer"]
             @@ "Number of Customers" :> Len(of(types[i])))]

\* Lines 192-201: per type the mean, max and count of 'Orders per Customer'.
SegCustomerStats(cs) ==
    LET types == SortedCells(ColumnValues(cs, "Customer Type"))
        of(t) == SelectRows(cs, "Customer Type", t)
    IN  [i \in DOMAIN types |->
            ("Customer Type" :> types[i]
             @@ "Avg Orders per Customer" :>
                    FloatDiv(SumCol(of(types[i]), "Orders per Customer"), Len(of(types[i])))
             @@ "Max Orders (Single Customer)" :> MaxCol(of(types[i]), "Orders per Customer")
             @@ "Number of Customers" :> Len(of(types[i])))]

(***************************************************************************)
(* The uploaded files.  Short texts stand for the type names and the       *)
(* customer identities.  Aggregation does not depend on the order of the   *)
(* rows, so one order is enumerated for each multiset of rows.             *)
(***************************************************************************)
Gallery == <<"G">>

Museum == <<"M">>

\* The cells of a 'Customer Type' column: missing, empty, blank, "nan",
\* padded "NaN", two names and a padded name.
CustomerTypeCells ==
    {NaN, Str(<<>>), Str(<<" ">>), Str(nan), Str(<<" ", "N", "a", "N", " ">>),
     Str(Gallery), Str(<<" ", "G", " ">>), Str(Museum)}

Jan15 == Str(<<"2", "0", "2", "5", "-", "0", "1", "-", "1", "5">>)

Jan31 == Str(<<"2", "0", "2", "5", "-", "0", "1", "-", "3", "1">>)

Feb10 == Str(<<"2", "0", "2", "5", "-", "0", "2", "-", "1", "0">>)

Feb30 == Str(<<"2", "0", "2", "5", "-", "0", "2", "-", "3", "0">>)

Jan15LastYear == Str(<<"2", "0", "2", "4", "-", "0", "1", "-", "1", "5">>)

Dec01LastYear == Str(<<"2", "0", "2", "4", "-", "1", "2", "-", "0", "1">>)

DateCells == {NaN, Str(<<"x">>), Feb30, Jan15, Jan31, Feb10, Jan15LastYear}

IdCells == {NaN, Str(<<"a">>), Str(<<"b">>)}

Rep(x, k) == [i \in 1..k |-> x]

\* The sequences of at most n rows drawn from S, one for each multiset.
RECURSIVE BagSeqs(_, _)
BagSeqs(S, n) ==
    IF S = {} THEN {<<>>}
    ELSE LET x == CHOOSE x \in S : TRUE
         IN  UNION {{Rep(x, k) \o t : t \in BagSeqs(S \ {x}, n - k)} : k \in 0..n}

File(cols, kinds) ==
    {[present |-> TRUE, cols |-> cols, rows |-> rs] : rs \in BagSeqs(kinds, MaxRows)}

Base(c, d) == ("Customer Type" :> c @@ "Date" :> d)

\* Every kind of 'Customer Type' cell, dated in 2025; two kinds undated.
NormFiles ==
    File({"Customer Type", "Date"},
         {Base(c, Jan15) : c \in CustomerTypeCells}
             \cup {Base(NaN, NaN), Base(Str(Gallery), NaN)})

\* Every kind of 'Date' cell.
DateFiles ==
    File({"Customer Type", "Date"},
         {Base(Str(Gallery), d) : d \in DateCells}
             \cup {Base(Str(Museum), d) : d \in {Jan15, Feb10, Jan15LastYear}})

CandidateSet == {candidate_cols[i] : i \in DOMAIN candidate_cols}

\* One identity column, with missing identities: two types and two years
\* under 'Customer ID', one type and one date under the other names.
IdFiles ==
    File({"Customer Type", "Date", "Customer ID"},
         {Base(c, d) @@ ("Customer ID" :> v) :
             c \in {Str(Gallery), Str(Museum)}, d \in {Jan15, Dec01LastYear},
             v \in IdCells})
    \cup UNION {File({"Customer Type", "Date", id},
                     {Base(Str(Gallery), Jan15) @@ (id :> v) : v \in IdCells}) :
                id \in CandidateSet \ {"Customer ID"}}

\* Several identity columns, at most one of which differs from the others
\* in a row.
MultiIdFiles ==
    UNION {File({"Customer Type", "Date"} \cup ids,
                {Base(Str(Gallery), Jan15) @@ f :
                    f \in {g \in [ids -> {Str(<<"a">>), Str(<<"b">>)}] :
                              Cardinality({c \in ids : g[c] = Str(<<"b">>)}) <= 1}}) :
           ids \in {S \in SUBSET CandidateSet : Cardinality(S) >= 2}}

\* A required column is missing from the header.
BrokenFiles ==
    File({"Date"}, {("Date" :> d) : d \in {Jan15, Str(<<"x">>)}})
    \cup File({"Customer Type"}, {("Customer Type" :> c) : c \in {Str(Gallery), NaN}})
    \cup File({"Customer ID"}, {("Customer ID" :> v) : v \in {Str(<<"a">>)}})
    \cup File({"Date", "Customer"},
              {("Date" :> Jan15 @@ "Customer" :> v) : v \in {Str(<<"a">>), NaN}})

Inputs == NormFiles \cup DateFiles \cup IdFiles \cup MultiIdFiles \cup BrokenFiles

\* The files a user swaps in while a dashboard is on screen.
ReplacementInputs == {f \in NormFiles \cup BrokenFiles : Len(f.rows) <= 1}

NoFile == [present |-> FALSE, cols |-> {}, rows |-> <<>>]

(***************************************************************************)
(* State: the uploader widget, the position of the running script, the     *)
(* script's variables and what the page shows.                             *)
(***************************************************************************)
VARIABLES uploaded_file, pc, names, df, df_year, customer_counts, time_series,
          heatmap_data, share_ts, cum_ts, segment_rank_2025, customer_id_col,
          cust_seg, seg_customer_stats, error, page,
          stats_before    \* history: an earlier run showed per-customer statistics

vars == <<uploaded_file, pc, names, df, df_year, customer_counts, time_series,
          heatmap_data, share_ts, cum_ts, segment_rank_2025, customer_id_col,
          cust_seg, seg_customer_stats, error, page, stats_before>>

NoFrame == [columns |-> {}, rows |-> <<>>]

NoMatrix == [index |-> <<>>, columns |-> <<>>, values |-> <<>>]

\* Faulty variant: the per-customer tables survive from the previous run.
FreshKeepingCustomerStats ==
    /\ names' = names \cap {"cust_seg", "seg_customer_stats"}
    /\ df' = NoFrame
    /\ df_year' = NoFrame
    /\ customer_counts' = <<>>
    /\ time_series' = <<>>
    /\ heatmap_data' = NoMatrix
    /\ share_ts' = <<>>
    /\ cum_ts' = <<>>
    /\ segment_rank_2025' = <<>>
    /\ customer_id_col' = "None"
    /\ error' = ""
    /\ stats_before' = (stats_before \/ "seg_customer_stats" \in names)
    /\ UNCHANGED <<cust_seg, seg_customer_stats>>

\* A run starts with no variable bound and an empty page.
Fresh ==
    /\ names' = {}
    /\ df' = NoFrame
    /\ df_year' = NoFrame
    /\ customer_counts' = <<>>
    /\ time_series' = <<>>
    /\ heatmap_data' = NoMatrix
    /\ share_ts' = <<>>
    /\ cum_ts' = <<>>
    /\ segment_rank_2025' = <<>>
    /\ customer_id_col' = "None"
    /\ cust_seg' = <<>>
    /\ seg_customer_stats' = <<>>
    /\ error' = ""
    /\ stats_before' = (stats_before \/ "seg_customer_stats" \in names)

Init ==
    /\ uploaded_file = NoFile
    /\ pc = "idle"
    /\ names = {}
    /\ df = NoFrame
    /\ df_year = NoFrame
    /\ customer_counts = <<>>
    /\ time_series = <<>>
    /\ heatmap_data = NoMatrix
    /\ share_ts = <<>>
    /\ cum_ts = <<>>
    /\ segment_rank_2025 = <<>>
    /\ customer_id_col = "None"
    /\ cust_seg = <<>>
    /\ seg_customer_stats = <<>>
    /\ error = ""
    /\ page = <<"info">>
    /\ stats_before = FALSE

Settled == pc \in {"done", "error"}

\* Lines 22-24: a file arrives in the empty uploader; the script runs again.
Upload(f) ==
    /\ pc = "idle"
    /\ uploaded_file' = f
    /\ pc' = "load"
    /\ page' = <<>>
    /\ Fresh

\* Another file replaces the one on screen.
Replace(f) ==
    /\ Settled
    /\ uploaded_file' = f
    /\ pc' = "load"
    /\ page' = <<>>
    /\ Fresh

\* The page is run again on the same file (any other interaction).
Rerun ==
    /\ Settled
    /\ uploaded_file' = uploaded_file
    /\ pc' = "load"
    /\ page' = <<>>
    /\ Fresh

\* Lines 24, 214-215: the file is removed; the run shows only the hint.
Remove ==
    /\ Settled
    /\ uploaded_file' = NoFile
    /\ pc' = "idle"
    /\ page' = <<"info">>
    /\ Fresh

\* Line 29
Load ==
    /\ pc = "load"
    /\ df' = [columns |-> uploaded_file.cols, rows |-> uploaded_file.rows]
    /\ names' = names \cup {"df"}
    /\ pc' = "clean"
    /\ UNCHANGED <<uploaded_file, stats_before, df_year, customer_counts, time_series, heatmap_data,
                   share_ts, cum_ts, segment_rank_2025, customer_id_col, cust_seg,
                   seg_customer_stats, error, page>>

\* Faulty variant: the exception is swallowed and the run ends silently.
RaiseSwallowed(msg) ==
    /\ error' = ""
    /\ pc' = "done"
    /\ UNCHANGED <<uploaded_file, stats_before, names, df, df_year, customer_counts, time_series,
                   heatmap_data, share_ts, cum_ts, segment_rank_2025, customer_id_col,
                   cust_seg, seg_customer_stats, page>>

\* An uncaught exception ends the run; the page shows it.
Raise(msg) ==
    /\ error' = msg
    /\ pc' = "error"
    /\ page' = Append(page, "exception")
    /\ UNCHANGED <<uploaded_file, stats_before, names, df, df_year, customer_counts, time_series,
                   heatmap_data, share_ts, cum_ts, segment_rank_2025, customer_id_col,
                   cust_seg, seg_customer_stats>>

\* Lines 34-40
Clean ==
    /\ pc = "clean"
    /\ IF "Customer Type" \notin df.columns
       THEN Raise("KeyError: 'Customer Type'")
       ELSE /\ df' = [df EXCEPT !.rows =
                        [i \in DOMAIN df.rows |->
                            [df.rows[i] EXCEPT !["Customer Type"] = CleanCustomerType(@)]]]
            /\ pc' = "parse"
            /\ UNCHANGED <<uploaded_file, stats_before, names, df_year, customer_counts,
                           time_series,
                           heatmap_data, share_ts, cum_ts, segment_rank_2025,
                           customer_id_col, cust_seg, seg_customer_stats, error, page>>

\* Lines 48-49: the rows of 2025, each tagged with its month.
DfYear(frame) ==
    LET kept == SelectSeq(frame.rows, LAMBDA r : InYear(r["Date"]))
    IN  [columns |-> frame.columns \cup {"Month"},
         rows |-> [i \in DOMAIN kept |-> kept[i] @@ ("Month" :> MonthOf(kept[i]["Date"]))]]

\* Lines 45-49
ParseDates ==
    /\ pc = "parse"
    /\ IF "Date" \notin df.columns
       THEN Raise("KeyError: 'Date'")
       ELSE LET parsed == [df EXCEPT !.rows =
                            [i \in DOMAIN df.rows |->
                                [df.rows[i] EXCEPT !["Date"] = ToDatetime(@)]]]
            IN  /\ df' = parsed
                /\ df_year' = DfYear(parsed)
                /\ names' = names \cup {"df_year"}
                /\ pc' = "aggregate"
                /\ UNCHANGED <<uploaded_file, stats_before, customer_counts, time_series,
                               heatmap_data,
                               share_ts, cum_ts, segment_rank_2025, customer_id_col,
                               cust_seg, seg_customer_stats, error, page>>

\* Lines 75-88
BaseAggregations ==
    /\ pc = "aggregate"
    /\ customer_counts' = CustomerCounts(df.rows)
    /\ time_series' = TimeSeries(df_year.rows)
    /\ names' = names \cup {"customer_counts", "time_series"}
    /\ pc' = "visuals"
    /\ UNCHANGED <<uploaded_file, stats_before, df, df_year, heatmap_data, share_ts, cum_ts,
                   segment_rank_2025, customer_id_col, cust_seg, seg_customer_stats,
                   error, page>>

\* The charts of lines 94-175, in page order.
Charts ==
    <<"stack_fig", "line_fig", "donut_fig", "heat_fig", "area_fig", "cum_fig",
      "bubble_fig", "rank_fig">>

\* Lines 94-175
DashboardVisuals ==
    /\ pc = "visuals"
    /\ heatmap_data' = HeatmapData(time_series)
    /\ share_ts' = ShareTs(time_series)
    /\ cum_ts' = CumTs(time_series)
    /\ segment_rank_2025' = SegmentRank(df_year.rows)
    /\ names' = names \cup {"heatmap_data", "share_ts", "cum_ts", "segment_rank_2025"}
    /\ page' = page \o Charts
    /\ pc' = "customer"
    /\ UNCHANGED <<uploaded_file, stats_before, df, df_year, customer_counts, time_series,
                   customer_id_col, cust_seg, seg_customer_stats, error>>

\* Lines 180-212
CustomerIdAnalysis ==
    /\ pc = "customer"
    /\ LET col == FirstPresent(candidate_cols, df_year.columns)
       IN  /\ customer_id_col' = col
           /\ IF col # "None"
              THEN /\ cust_seg' = CustSeg(df_year.rows, col)
                   /\ seg_customer_stats' = SegCustomerStats(CustSeg(df_year.rows, col))
                   /\ names' = names \cup {"customer_id_col", "cust_seg",
                                           "seg_customer_stats"}
                   /\ page' = Append(page, "cust_bar_fig")
              ELSE /\ names' = names \cup {"customer_id_col"}
                   /\ UNCHANGED <<cust_seg, seg_customer_stats, page>>
    /\ pc' = "done"
    /\ UNCHANGED <<uploaded_file, stats_before, df, df_year, customer_counts, time_series,
                   heatmap_data, share_ts, cum_ts, segment_rank_2025, error>>

Next ==
    \/ \E f \in Inputs : Upload(f)
    \/ \E f \in ReplacementInputs : Replace(f)
    \/ Rerun
    \/ Remove
    \/ Load
    \/ Clean
    \/ ParseDates
    \/ BaseAggregations
    \/ DashboardVisuals
    \/ CustomerIdAnalysis

Spec == Init /\ [][Next]_vars

(***************************************************************************)
(* What the properties are stated in: the uploaded rows themselves.        *)
(***************************************************************************)
RawRows == uploaded_file.rows

HasRequired == {"Customer Type", "Date"} \subseteq uploaded_file.cols

Trim(t) == RStrip(LStrip(t))

\* The raw cell is missing, blank after trimming, or "nan"/"NaN" after trimming.
RawBlank(cell) == cell.na \/ Trim(cell.s) \in {<<>>, nan, NaNText}

\* A value of the normalized domain.
Normalized(cell) ==
    /\ ~cell.na
    /\ cell.s # <<>>
    /\ cell.s \notin {nan, NaNText}
    /\ ~IsSpace(cell.s[1]) /\ ~IsSpace(cell.s[Len(cell.s)])

TypeOf(i) == CleanCustomerType(RawRows[i]["Customer Type"])

DateOf(i) == ToDatetime(RawRows[i]["Date"])

\* The indices of the uploaded rows dated in 2025.
Scoped == {i \in DOMAIN RawRows : ~DateOf(i).nat /\ DateOf(i).year = 2025}

RECURSIVE SumSeq(_)
SumSeq(q) == IF q = <<>> THEN 0 ELSE Head(q) + SumSeq(Tail(q))

RowOf(rows, col, v) == CHOOSE i \in DOMAIN rows : rows[i][col] = v

\* The 'Customer Type' values of every derived table.
TypeCells ==
    ColumnValues(customer_counts, "Customer Type")
    \cup ColumnValues(time_series, "Customer Type")
    \cup ColumnValues(segment_rank_2025, "Customer Type")
    \cup {heatmap_data.index[i] : i \in DOMAIN heatmap_data.index}
    \cup ColumnValues(share_ts, "Customer Type")
    \cup ColumnValues(cum_ts, "Customer Type")
    \cup ColumnValues(cust_seg, "Customer Type")
    \cup ColumnValues(seg_customer_stats, "Customer Type")

CountOf(rows, col, t) ==
    IF \E i \in DOMAIN rows : rows[i]["Customer Type"] = t
    THEN rows[RowOf(rows, "Customer Type", t)][col] ELSE 0

\* C1: every 'Customer Type' value of every derived table is a non-empty,
\* trimmed text other than "nan"/"NaN", never missing; and the rows whose raw
\* cell was missing, blank or "nan"/"NaN" after trimming are exactly the rows
\* counted under "Not Defined", in the totals and in the 2025 ranking.
C1_NormalizedDomain ==
    /\ \A c \in TypeCells : Normalized(c)
    /\ "customer_counts" \in names =>
          CountOf(customer_counts, "Count", Str(NotDefined))
              = Cardinality({i \in DOMAIN RawRows : RawBlank(RawRows[i]["Customer Type"])})
    /\ "segment_rank_2025" \in names =>
          CountOf(segment_rank_2025, "Total Orders 2025", Str(NotDefined))
              = Cardinality({i \in Scoped : RawBlank(RawRows[i]["Customer Type"])})

\* A finished run on a file holding a missing, a blank and a padded "NaN"
\* cell, all three counted under "Not Defined" in the totals and in 2025.
C1_Witness ==
    /\ pc = "done"
    /\ {NaN, Str(<<" ">>), Str(<<" ", "N", "a", "N", " ">>)}
           \subseteq {RawRows[i]["Customer Type"] : i \in DOMAIN RawRows}
    /\ CountOf(customer_counts, "Count", Str(NotDefined)) = 3
    /\ CountOf(segment_rank_2025, "Total Orders 2025", Str(NotDefined)) >= 1
    /\ \E i \in DOMAIN time_series : time_series[i]["Customer Type"] = Str(NotDefined)

\* C2: CustomerTotals has exactly one entry for each distinct normalized type
\* of the whole cleaned table (rows of any year and rows without a date
\* included), its Count is the number of those rows, and the Counts add up to
\* the number of rows.
C2_CustomerTotals ==
    "customer_counts" \in names =>
        /\ \A i, j \in DOMAIN customer_counts :
              customer_counts[i]["Customer Type"] = customer_counts[j]["Customer Type"]
                  => i = j
        /\ ColumnValues(customer_counts, "Customer Type")
              = {TypeOf(i) : i \in DOMAIN RawRows}
        /\ \A k \in DOMAIN customer_counts :
              customer_counts[k]["Count"]
                  = Cardinality({i \in DOMAIN RawRows :
                                    TypeOf(i) = customer_counts[k]["Customer Type"]})
        /\ SumCol(customer_counts, "Count") = Len(RawRows)

\* A finished run on three rows of which one has no parseable date and one
\* is dated in another year; the totals still count all three.
C2_Witness ==
    /\ pc = "done"
    /\ Len(RawRows) = 3
    /\ \E i \in DOMAIN RawRows : DateOf(i).nat
    /\ \E i \in DOMAIN RawRows : ~DateOf(i).nat /\ DateOf(i).year # 2025
    /\ Scoped # {}
    /\ Len(customer_counts) = 2
    /\ SumCol(customer_counts, "Count") = 3

\* The uploaded rows of 2025 with the given type (and month).
ScopedOfType(t) == {i \in Scoped : TypeOf(i) = t}

ScopedOf(m, t) ==
    {i \in Scoped : TypeOf(i) = t /\ m = Timestamp(DateOf(i).year, DateOf(i).month, 1)}

MatrixTotal(mx) == SumSeq([i \in DOMAIN mx.values |-> SumSeq(mx.values[i])])

\* The monthly series and the tables derived from it count exactly the
\* uploaded rows dated in 2025, each under the first day of its month, while
\* the totals count every row.
YearScopedSeries ==
    pc = "done" =>
        /\ \A k \in DOMAIN time_series :
              /\ time_series[k]["Month"].day = 1
              /\ time_series[k]["Count"] >= 1
              /\ time_series[k]["Count"]
                    = Cardinality(ScopedOf(time_series[k]["Month"],
                                           time_series[k]["Customer Type"]))
        /\ \A i \in Scoped : \E k \in DOMAIN time_series :
              i \in ScopedOf(time_series[k]["Month"], time_series[k]["Customer Type"])
        /\ SumCol(time_series, "Count") = Cardinality(Scoped)
        /\ \A k \in DOMAIN segment_rank_2025 :
              segment_rank_2025[k]["Total Orders 2025"]
                  = Cardinality(ScopedOfType(segment_rank_2025[k]["Customer Type"]))
        /\ SumCol(segment_rank_2025, "Total Orders 2025") = Cardinality(Scoped)
        /\ MatrixTotal(heatmap_data) = Cardinality(Scoped)
        /\ SumCol(share_ts, "Count") = Cardinality(Scoped)
        /\ SumCol(cum_ts, "Count") = Cardinality(Scoped)
        /\ SumCol(customer_counts, "Count") = Len(RawRows)

\* C3: the year-scoped tables, PerCustomerStats among them, count exactly the
\* rows whose date parsed and lies in 2025; a row without a date or of another
\* year is in none of them but still in CustomerTotals; every counted row is
\* keyed by the first day of its month, so the MonthlySeries counts add up to
\* the number of year-scoped rows.
C3_YearScopedExact ==
    /\ YearScopedSeries
    /\ (pc = "done" /\ "seg_customer_stats" \in names) =>
          SumCol(cust_seg, "Orders per Customer") = Cardinality(Scoped)

\* The real sum of the Share values of month m, minus 1, is
\* dev / (Month_Total * 2^scale) for the pair <<dev, scale>> given here; the
\* exact parts Count/Month_Total of the quotients add up to 1 (see
\* ShareParts), what is left is the sum of the rounding errors.
ShareDeviation(m) ==
    LET rows == SelectRows(share_ts, "Month", m)
        K == CHOOSE k \in {rows[i]["Share"].scale : i \in DOMAIN rows} :
                \A i \in DOMAIN rows : rows[i]["Share"].scale <= k
    IN  <<SumSeq([i \in DOMAIN rows |->
                    rows[i]["Share"].err * 2 ^ (K - rows[i]["Share"].scale)]), K>>

\* Each Share of month m is the quotient Count / Month_Total, and the Counts
\* of the month add up to Month_Total, which is at least 1.
ShareParts(m) ==
    LET rows == SelectRows(share_ts, "Month", m)
    IN  /\ \A i \in DOMAIN rows :
              /\ rows[i]["Month_Total"] = SumCol(rows, "Count")
              /\ rows[i]["Month_Total"] >= 1
              /\ rows[i]["Share"].num = rows[i]["Count"]
              /\ rows[i]["Share"].den = rows[i]["Month_Total"]
              /\ 2 * rows[i]["Share"].err <= rows[i]["Share"].den
              /\ -2 * rows[i]["Share"].err <= rows[i]["Share"].den
        /\ SumCol(rows, "Count")
              = Cardinality({i \in Scoped : m = Timestamp(DateOf(i).year, DateOf(i).month, 1)})

Abs(x) == IF x < 0 THEN -x ELSE x

Min(a, b) == IF a <= b THEN a ELSE b

\* C4 as stated: in every month of MonthlyShare, MonthTotal is the sum of the
\* month's Counts and at least 1, and the Shares sum to exactly 1.
C4_ShareSumExactlyOne ==
    \A m \in ColumnValues(share_ts, "Month") :
        ShareParts(m) /\ ShareDeviation(m)[1] = 0

\* C4 amended: in every month of MonthlyShare, MonthTotal is the sum of the
\* month's Counts and at least 1, and the Shares sum to 1 within 1e-9: the sum
\* is off by |dev| / (MonthTotal * 2^scale), which is at most 2^-30 < 1e-9
\* when |dev| <= MonthTotal * 2^(scale - 30).
C4_ShareSumWithinTolerance ==
    \A m \in ColumnValues(share_ts, "Month") :
        /\ ShareParts(m)
        /\ ShareDeviation(m)[2] >= 30
        /\ Abs(ShareDeviation(m)[1])
              <= SumCol(SelectRows(share_ts, "Month", m), "Count")
                    * 2 ^ Min(ShareDeviation(m)[2] - 30, 20)

\* A month of three orders shared 2 : 1 by two types, whose Shares 2/3 and 1/3
\* are both rounded.
C4_Witness ==
    /\ pc = "done"
    /\ \E i, j \in DOMAIN share_ts :
          /\ share_ts[i]["Month"] = share_ts[j]["Month"]
          /\ share_ts[i]["Count"] = 2 /\ share_ts[j]["Count"] = 1
          /\ share_ts[i]["Month_Total"] = 3
          /\ share_ts[i]["Share"].err # 0 /\ share_ts[j]["Share"].err # 0

\* C5: in CumulativeSeries the CumulativeCount of a type at a month is the sum
\* of that type's MonthlySeries Counts over the months up to and including
\* it; within a type it grows strictly with the month; nothing is carried
\* over from another type.
C5_CumulativeCount ==
    /\ "cum_ts" \in names => Len(cum_ts) = Len(time_series)
    /\ \A i \in DOMAIN cum_ts :
          /\ cum_ts[i]["Cumulative Orders"]
                = SumSeq([k \in DOMAIN time_series |->
                            IF /\ time_series[k]["Customer Type"] = cum_ts[i]["Customer Type"]
                               /\ ~MonthLess(cum_ts[i]["Month"], time_series[k]["Month"])
                            THEN time_series[k]["Count"] ELSE 0])
          /\ \E k \in DOMAIN time_series :
                /\ time_series[k]["Customer Type"] = cum_ts[i]["Customer Type"]
                /\ time_series[k]["Month"] = cum_ts[i]["Month"]
                /\ time_series[k]["Count"] = cum_ts[i]["Count"]
    /\ \A i, j \in DOMAIN cum_ts :
          (/\ cum_ts[i]["Customer Type"] = cum_ts[j]["Customer Type"]
           /\ MonthLess(cum_ts[i]["Month"], cum_ts[j]["Month"]))
              => cum_ts[i]["Cumulative Orders"] < cum_ts[j]["Cumulative Orders"]

\* Two types, the second in order ("M") entering after the first ("G") has
\* orders in January and in February.
C5_Witness ==
    /\ pc = "done"
    /\ Len(cum_ts) = 3
    /\ cum_ts[1]["Customer Type"] = Str(Gallery)
    /\ cum_ts[2]["Customer Type"] = Str(Gallery)
    /\ MonthLess(cum_ts[1]["Month"], cum_ts[2]["Month"])
    /\ cum_ts[2]["Cumulative Orders"] = 2
    /\ cum_ts[3]["Customer Type"] = Str(Museum)
    /\ cum_ts[3]["Cumulative Orders"] = 1

DerivedNames ==
    {"customer_counts", "time_series", "heatmap_data", "share_ts", "cum_ts",
     "segment_rank_2025", "cust_seg", "seg_customer_stats"}

NoTables ==
    /\ names \cap DerivedNames = {}
    /\ customer_counts = <<>> /\ time_series = <<>> /\ heatmap_data = NoMatrix
    /\ share_ts = <<>> /\ cum_ts = <<>> /\ segment_rank_2025 = <<>>
    /\ cust_seg = <<>> /\ seg_customer_stats = <<>>

\* C6: a run ends in the fatal error if and only if the 'Customer Type' or the
\* 'Date' column is absent from the header; such a run stops before any
\* derived table is computed or shown; a file with both columns runs to the
\* end without error whatever its cells hold.
C6_SchemaError ==
    /\ Settled => (pc = "error" <=> ~HasRequired)
    /\ error # "" <=> pc = "error"
    /\ pc = "error" => NoTables /\ page = <<"exception">>
    /\ (uploaded_file.present /\ ~HasRequired) =>
          /\ pc \in {"load", "clean", "parse", "error"}
          /\ NoTables
          /\ \A i \in DOMAIN page : page[i] \notin {Charts[k] : k \in DOMAIN Charts}
    /\ pc = "done" => DerivedNames \ {"cust_seg", "seg_customer_stats"} \subseteq names

\* A file with 'Customer Type' (one cell missing) but no 'Date' column: the
\* type column has been cleaned, then the run failed.
C6_Witness ==
    /\ pc = "error"
    /\ error = "KeyError: 'Date'"
    /\ \E i \in DOMAIN RawRows : RawRows[i]["Customer Type"].na
    /\ \E i \in DOMAIN df.rows : df.rows[i]["Customer Type"] = Str(NotDefined)

Project(file) ==
    [file EXCEPT !.cols = {"Customer Type", "Date"},
                 !.rows = [i \in DOMAIN file.rows |->
                              Base(file.rows[i]["Customer Type"], file.rows[i]["Date"])]]

\* What one run of the script on a file with both required columns yields.
RunOf(file) ==
    LET cleaned == [i \in DOMAIN file.rows |->
                      [file.rows[i] EXCEPT !["Customer Type"] = CleanCustomerType(@),
                                           !["Date"] = ToDatetime(@)]]
        year == DfYear([columns |-> file.cols, rows |-> cleaned])
        ts == TimeSeries(year.rows)
        col == FirstPresent(candidate_cols, year.columns)
        cs == IF col = "None" THEN <<>> ELSE CustSeg(year.rows, col)
    IN  [customer_counts |-> CustomerCounts(cleaned),
         time_series |-> ts,
         heatmap_data |-> HeatmapData(ts),
         share_ts |-> ShareTs(ts),
         cum_ts |-> CumTs(ts),
         segment_rank_2025 |-> SegmentRank(year.rows),
         customer_id_col |-> col,
         cust_seg |-> cs,
         seg_customer_stats |-> IF col = "None" THEN <<>> ELSE SegCustomerStats(cs)]

CoreTables ==
    [customer_counts |-> customer_counts, time_series |-> time_series,
     heatmap_data |-> heatmap_data, share_ts |-> share_ts, cum_ts |-> cum_ts,
     segment_rank_2025 |-> segment_rank_2025]

CoreOf(run) ==
    [customer_counts |-> run.customer_counts, time_series |-> run.time_series,
     heatmap_data |-> run.heatmap_data, share_ts |-> run.share_ts,
     cum_ts |-> run.cum_ts, segment_rank_2025 |-> run.segment_rank_2025]

\* C7: the identity column is the first name of the priority list that is in
\* the header, whatever other listed names are there, and the per-customer
\* counts are taken over that column; with none present PerCustomerStats is
\* absent, no error is raised, and the other tables are those of the same
\* file with or without identity columns.
C7_IdentityColumn ==
    pc = "done" =>
        /\ customer_id_col = "None" <=> uploaded_file.cols \cap CandidateSet = {}
        /\ customer_id_col # "None" =>
              /\ \E i \in DOMAIN candidate_cols :
                    /\ candidate_cols[i] = customer_id_col
                    /\ customer_id_col \in uploaded_file.cols
                    /\ \A j \in 1..(i - 1) : candidate_cols[j] \notin uploaded_file.cols
              /\ {"cust_seg", "seg_customer_stats"} \subseteq names
              /\ page = Append(Charts, "cust_bar_fig")
              /\ \A k \in DOMAIN cust_seg :
                    /\ customer_id_col \in DOMAIN cust_seg[k]
                    /\ cust_seg[k]["Orders per Customer"]
                          = Cardinality({i \in ScopedOfType(cust_seg[k]["Customer Type"]) :
                                           RawRows[i][customer_id_col]
                                               = cust_seg[k][customer_id_col]})
        /\ customer_id_col = "None" =>
              /\ names \cap {"cust_seg", "seg_customer_stats"} = {}
              /\ cust_seg = <<>> /\ seg_customer_stats = <<>>
              /\ error = ""
              /\ page = Charts
        /\ CoreTables = CoreOf(RunOf(Project(uploaded_file)))

\* 'Customer Name' and 'Customer' are both in the header ('Customer ID' and
\* 'Customer_Id' are not) and hold different identities in some row; the
\* counts are those of 'Customer Name'.
C7_Witness ==
    /\ pc = "done"
    /\ uploaded_file.cols \cap CandidateSet = {"Customer Name", "Customer"}
    /\ customer_id_col = "Customer Name"
    /\ \E i \in DOMAIN RawRows : RawRows[i]["Customer Name"] # RawRows[i]["Customer"]
    /\ Len(RawRows) = 3
    /\ Len(cust_seg) = 1
    /\ cust_seg[1]["Orders per Customer"] = 3

\* C8: whatever was uploaded before, the tables of a finished run are those
\* of a first run on the same file, a failed run has none, and with no file
\* in the uploader there is no table, only the upload hint.
C8_NoCarryOver ==
    /\ pc = "idle" =>
          ~uploaded_file.present /\ names = {} /\ NoTables /\ page = <<"info">>
    /\ pc = "error" => NoTables
    /\ pc = "done" =>
          /\ CoreTables = CoreOf(RunOf(uploaded_file))
          /\ customer_id_col = RunOf(uploaded_file).customer_id_col
          /\ cust_seg = RunOf(uploaded_file).cust_seg
          /\ seg_customer_stats = RunOf(uploaded_file).seg_customer_stats
          /\ names = {"df", "df_year", "customer_id_col"}
                        \cup (DerivedNames \ {"cust_seg", "seg_customer_stats"})
                        \cup (IF customer_id_col = "None" THEN {}
                              ELSE {"cust_seg", "seg_customer_stats"})
          /\ page = IF customer_id_col = "None" THEN Charts
                    ELSE Append(Charts, "cust_bar_fig")

\* After a dashboard with per-customer statistics has been shown, a run on a
\* file without identity column has finished.
C8_Witness ==
    /\ pc = "done"
    /\ stats_before
    /\ customer_id_col = "None"
    /\ Len(RawRows) = 1
    /\ Len(customer_counts) = 1
    /\ seg_customer_stats = <<>>

RECURSIVE SumSet(_, _)
SumSet(S, f) ==
    IF S = {} THEN 0
    ELSE LET x == CHOOSE x \in S : TRUE IN f[x] + SumSet(S \ {x}, f)

\* f >= z and f <= z for a quotient f = FloatDiv(a, b) and an integer z: the
\* rounding error is below 1/den, so the sign of num - z*den decides unless
\* it is 0.
FloatGeqInt(f, z) ==
    f.num - z * f.den > 0 \/ (f.num - z * f.den = 0 /\ f.err >= 0)

FloatLeqInt(f, z) ==
    f.num - z * f.den < 0 \/ (f.num - z * f.den = 0 /\ f.err <= 0)

\* The identities of type t seen in the rows of 2025, and their order counts.
IdsOf(t) == {RawRows[i][customer_id_col] : i \in ScopedOfType(t)} \ {NaN}

OrdersOf(t) ==
    [v \in IdsOf(t) |->
        Cardinality({i \in ScopedOfType(t) : RawRows[i][customer_id_col] = v})]

\* C9: with an identity column, PerCustomerStats holds for each type the
\* number of distinct identities seen with it in the rows of 2025, the
\* largest order count of one identity, and the mean order count (the sum of
\* the order counts divided by the number of identities), so that
\* 1 <= mean <= max.
C9_PerCustomerStats ==
    "seg_customer_stats" \in names =>
        /\ ColumnValues(seg_customer_stats, "Customer Type")
              = {t \in {TypeOf(i) : i \in Scoped} : IdsOf(t) # {}}
        /\ \A k \in DOMAIN seg_customer_stats :
              LET row == seg_customer_stats[k]
                  t == row["Customer Type"]
              IN  /\ row["Number of Customers"] = Cardinality(IdsOf(t))
                  /\ row["Max Orders (Single Customer)"] \in
                        {OrdersOf(t)[v] : v \in IdsOf(t)}
                  /\ \A v \in IdsOf(t) :
                        OrdersOf(t)[v] <= row["Max Orders (Single Customer)"]
                  /\ row["Avg Orders per Customer"]
                        = FloatDiv(SumSet(IdsOf(t), OrdersOf(t)), Cardinality(IdsOf(t)))
                  /\ FloatGeqInt(row["Avg Orders per Customer"], 1)
                  /\ FloatLeqInt(row["Avg Orders per Customer"],
                                 row["Max Orders (Single Customer)"])

\* A type with two customers, one with one order and one with two.
C9_Witness ==
    /\ pc = "done"
    /\ \E k \in DOMAIN seg_customer_stats :
          /\ seg_customer_stats[k]["Number of Customers"] = 2
          /\ seg_customer_stats[k]["Max Orders (Single Customer)"] = 2
          /\ seg_customer_stats[k]["Avg Orders per Customer"].num = 3
    /\ cust_seg[1]["Orders per Customer"] = 1

LastCumulative(t) ==
    LET rows == SelectRows(cum_ts, "Customer Type", t)
    IN  rows[Len(rows)]["Cumulative Orders"]

HeatmapRow(t) ==
    SumSeq(heatmap_data.values[CHOOSE i \in DOMAIN heatmap_data.index :
                                   heatmap_data.index[i] = t])

\* The 2025 ranking, the last cumulative count and the heatmap row of every
\* type of the rows of 2025 agree.
SeriesAgree ==
    pc = "done" =>
        \A t \in {TypeOf(i) : i \in Scoped} :
            /\ CountOf(segment_rank_2025, "Total Orders 2025", t) >= 1
            /\ LastCumulative(t) = CountOf(segment_rank_2025, "Total Orders 2025", t)
            /\ HeatmapRow(t) = CountOf(segment_rank_2025, "Total Orders 2025", t)

\* C10: for every type of the rows of 2025 the ranking count equals the last
\* cumulative count and the heatmap row sum and, with an identity column
\* (some identities may be missing), the sum of its per-customer order
\* counts, the type having an entry in PerCustomerStats.
C10_TablesAgree ==
    /\ SeriesAgree
    /\ (pc = "done" /\ customer_id_col # "None") =>
          \A t \in {TypeOf(i) : i \in Scoped} :
              /\ \E k \in DOMAIN seg_customer_stats :
                    seg_customer_stats[k]["Customer Type"] = t
              /\ SumCol(SelectRows(cust_seg, "Customer Type", t), "Orders per Customer")
                    = CountOf(segment_rank_2025, "Total Orders 2025", t)

=============================================================================
